---- MODULE Spec2Model ----
(***************************************************************************)
(* ConnectFourGame (src/src/town/games/ConnectFourGame.ts): one round of   *)
(* Connect Four with its join / start / move / leave protocol, the board   *)
(* kept beside the move log, and the optional reference to the prior game. *)
(***************************************************************************)
EXTENDS Integers, Sequences, FiniteSets, TLC

\* state     this.state: moves, status, firstPlayer, red, yellow, redReady,
\*           yellowReady, winner (an unset ready flag reads as FALSE)
\* board     this._board, rows 0 (top) to 5 (bottom), cells "_", "R", "Y"
\* players   this._players of the base class Game: join adds, leave removes
\* lastGame  this._lastGame: << >> or the one-element sequence of the prior
\*           game's state
\* lastPlayers  the players of the prior game (its _players) when this game
\*           was constructed from it; {} without a prior game
\* plan      the line of play the two players follow in this game
\* call      the last request: operation, player and, for applyMove, the move
\* result    OK, or the message of the InvalidParametersError thrown
\* created   the games the last call constructed besides this one
\* gameID    the id of the game the area holds (this._game.id), 0 while the
\*           area holds no game
\* history   this._history of the area: one record per recorded game
\* occupants this._occupants of the area: the user name of each player in it
VARIABLES state, board, players, lastGame, lastPlayers, plan, call, result,
          created, gameID, history, occupants

gameVars == <<state, board, players, lastGame, lastPlayers, plan, call, result,
              created>>

areaVars == <<gameID, history, occupants>>

vars == <<gameVars, areaVars>>

(***************************************************************************)
(* Values                                                                  *)
(***************************************************************************)
Players == {"p1", "p2", "p3"}

undefined == "undefined"

Colors == {"Red", "Yellow"}

NumRows == 6

NumCols == 7

BoardCapacity == 42

WinLength == 4

Rows == 0 .. (NumRows - 1)

Cols == 0 .. (NumCols - 1)

PLAYER_ALREADY_IN_GAME_MESSAGE == "PlayerAlreadyInGame"

GAME_FULL_MESSAGE == "GameFull"

PLAYER_NOT_IN_GAME_MESSAGE == "PlayerNotInGame"

GAME_NOT_STARTABLE_MESSAGE == "GameNotStartable"

MOVE_NOT_YOUR_TURN_MESSAGE == "MoveNotYourTurn"

BOARD_POSITION_NOT_VALID_MESSAGE == "BoardPositionNotValid"

GAME_NOT_IN_PROGRESS_MESSAGE == "GameNotInProgress"

OK == "OK"

GAME_ID_MISSMATCH_MESSAGE == "GameIDMissmatch"

(***************************************************************************)
(* Bounds of the exploration                                               *)
(***************************************************************************)
\* moves played while the players choose any column and any game piece
MaxFreeMoves == 1

\* longest move log of a game that is handed to the constructor as priorGame
MaxPriorMoves == 0

(***************************************************************************)
(* The state after construction                                            *)
(***************************************************************************)
EmptyBoard == [r \in Rows |-> [c \in Cols |-> "_"]]

InitialState ==
  [ moves |-> << >>,
    status |-> "WAITING_FOR_PLAYERS",
    firstPlayer |-> "Red",
    red |-> undefined,
    yellow |-> undefined,
    redReady |-> FALSE,
    yellowReady |-> FALSE,
    winner |-> undefined ]

(***************************************************************************)
(* Turn arbiter                                                            *)
(***************************************************************************)
_getOtherPlayerColor(playerColor) ==
  IF playerColor = "Red" THEN "Yellow" ELSE "Red"

\* variant: Red moves on every even log length, whatever firstPlayer says
CurrentPlayerRedFirst(st) ==
  IF Len(st.moves) % 2 = 0 THEN "Red" ELSE "Yellow"

CurrentPlayer(st) ==
  IF Len(st.moves) % 2 = 0 THEN st.firstPlayer
                           ELSE _getOtherPlayerColor(st.firstPlayer)

_isTurn(st, move) ==
  \/ CurrentPlayer(st) = "Red" /\ move.playerID = st.red
  \/ CurrentPlayer(st) = "Yellow" /\ move.playerID = st.yellow

(***************************************************************************)
(* Board                                                                   *)
(***************************************************************************)
\* variant: the cell below is not looked at
_checkValidBoardPositionNoGravity(b, move) ==
  LET row == move.move.row
      col == move.move.col
  IN  IF col < 0 \/ col >= 7 \/ row < 0 \/ row >= 6 THEN FALSE
      ELSE IF b[row][col] # "_" THEN FALSE
      ELSE TRUE

\* variant: the cell itself is not looked at
_checkValidBoardPositionNoEmptyCheck(b, move) ==
  LET row == move.move.row
      col == move.move.col
  IN  IF col < 0 \/ col >= 7 \/ row < 0 \/ row >= 6 THEN FALSE
      ELSE IF row # 5 /\ b[row + 1][col] = "_" THEN FALSE
      ELSE TRUE

_checkValidBoardPosition(b, move) ==
  LET row == move.move.row
      col == move.move.col
  IN  IF col < 0 \/ col >= 7 \/ row < 0 \/ row >= 6 THEN FALSE
      ELSE IF b[row][col] # "_" THEN FALSE
      ELSE IF row # 5 /\ b[row + 1][col] = "_" THEN FALSE
      ELSE TRUE

\* variant: the board position is checked before the turn
_checkValidMoveBoardFirst(st, b, move) ==
  IF st.status # "IN_PROGRESS" THEN GAME_NOT_IN_PROGRESS_MESSAGE
  ELSE IF st.red # move.playerID /\ st.yellow # move.playerID
    THEN PLAYER_NOT_IN_GAME_MESSAGE
  ELSE IF ~_checkValidBoardPosition(b, move) THEN BOARD_POSITION_NOT_VALID_MESSAGE
  ELSE IF ~_isTurn(st, move) THEN MOVE_NOT_YOUR_TURN_MESSAGE
  ELSE OK

_checkValidMove(st, b, move) ==
  IF st.status # "IN_PROGRESS" THEN GAME_NOT_IN_PROGRESS_MESSAGE
  ELSE IF st.red # move.playerID /\ st.yellow # move.playerID
    THEN PLAYER_NOT_IN_GAME_MESSAGE
  ELSE IF st.status = "IN_PROGRESS" /\ st.red # undefined /\ ~_isTurn(st, move)
    THEN MOVE_NOT_YOUR_TURN_MESSAGE
  ELSE IF st.status = "IN_PROGRESS" /\ st.yellow # undefined /\ ~_isTurn(st, move)
    THEN MOVE_NOT_YOUR_TURN_MESSAGE
  ELSE IF ~_isTurn(st, move) THEN MOVE_NOT_YOUR_TURN_MESSAGE
  ELSE IF ~_checkValidBoardPosition(b, move) THEN BOARD_POSITION_NOT_VALID_MESSAGE
  ELSE OK

RECURSIVE UpdateFrom(_, _, _)
UpdateFrom(b, moves, i) ==
  IF i > Len(moves) THEN b
  ELSE LET m == moves[i]
           piece == IF m.gamePiece = "Red" THEN "R" ELSE "Y"
       IN  UpdateFrom([b EXCEPT ![m.row][m.col] = piece], moves, i + 1)

\* variant: the replay loop starts at the second move
_updateBoardSkipFirst(b, moves) == UpdateFrom(b, moves, 2)

_updateBoard(b, moves) == UpdateFrom(b, moves, 1)

(***************************************************************************)
(* Win / tie detector                                                      *)
(***************************************************************************)
\* board[row]?.[col]: a cell outside the board reads as undefined
Cell(b, row, col) ==
  IF row \in Rows /\ col \in Cols THEN b[row][col] ELSE undefined

\* variant: the horizontal counter stops at three
RECURSIVE HorizontalScanThree(_, _, _, _)
HorizontalScanThree(b, row, col, counter) ==
  IF col >= NumCols THEN FALSE
  ELSE LET next == IF b[row][col] # "_" /\ b[row][col] = b[row][col - 1]
                     THEN counter + 1 ELSE 1
       IN  IF next = 3 THEN TRUE ELSE HorizontalScanThree(b, row, col + 1, next)

\* the inner loop of the horizontal check, from column col with the running counter
RECURSIVE HorizontalScan(_, _, _, _)
HorizontalScan(b, row, col, counter) ==
  IF col >= NumCols THEN FALSE
  ELSE LET next == IF b[row][col] # "_" /\ b[row][col] = b[row][col - 1]
                     THEN counter + 1 ELSE 1
       IN  IF next = WinLength THEN TRUE ELSE HorizontalScan(b, row, col + 1, next)

HorizontalWin(b) == \E row \in Rows : HorizontalScan(b, row, 1, 1)

\* the inner loop of the vertical check, from row row with the running counter
RECURSIVE VerticalScan(_, _, _, _)
VerticalScan(b, col, row, counter) ==
  IF row >= NumRows THEN FALSE
  ELSE LET next == IF b[row][col] # "_" /\ b[row][col] = b[row - 1][col]
                     THEN counter + 1 ELSE 1
       IN  IF next = WinLength THEN TRUE ELSE VerticalScan(b, col, row + 1, next)

VerticalWin(b) == \E col \in Cols : VerticalScan(b, col, 1, 1)

\* diagonal from top left to bottom right
DiagonalDownWin(b) ==
  \E row \in Rows, col \in Cols :
    /\ b[row][col] # "_"
    /\ Cell(b, row + 1, col + 1) = b[row][col]
    /\ Cell(b, row + 2, col + 2) = b[row][col]
    /\ Cell(b, row + 3, col + 3) = b[row][col]

\* variant: the second diagonal check walks down to the right like the first
DiagonalUpWinWrongWay(b) ==
  \E row \in Rows, col \in Cols :
    /\ b[row][col] # "_"
    /\ Cell(b, row + 1, col + 1) = b[row][col]
    /\ Cell(b, row + 2, col + 2) = b[row][col]
    /\ Cell(b, row + 3, col + 3) = b[row][col]

\* diagonal from bottom left to top right
DiagonalUpWin(b) ==
  \E row \in Rows, col \in Cols :
    /\ b[row][col] # "_"
    /\ Cell(b, row - 1, col + 1) = b[row][col]
    /\ Cell(b, row - 2, col + 2) = b[row][col]
    /\ Cell(b, row - 3, col + 3) = b[row][col]

\* variant: the tie is looked for one move late
TieReachedLate(st, b) ==
  \E row \in Rows, col \in Cols :
    b[row][col] # "_" /\ Len(st.moves) = BoardCapacity + 1

TieReached(st, b) ==
  \E row \in Rows, col \in Cols :
    b[row][col] # "_" /\ Len(st.moves) = BoardCapacity

\* variant: the winner is set and the status is left as it is
_setWinnerKeepsStatus(st, move) ==
  [st EXCEPT !.winner = IF move.gamePiece = "Red" THEN st.red ELSE st.yellow]

_setWinnerAndGameOver(st, move) ==
  [st EXCEPT !.winner = IF move.gamePiece = "Red" THEN st.red ELSE st.yellow,
             !.status = "OVER"]

\* variant: the full board is looked for before the runs
_determineWinnerTieFirst(st, move, b) ==
  IF TieReached(st, b) THEN [st EXCEPT !.status = "OVER", !.winner = undefined]
  ELSE IF HorizontalWin(b) THEN _setWinnerAndGameOver(st, move)
  ELSE IF VerticalWin(b) THEN _setWinnerAndGameOver(st, move)
  ELSE IF DiagonalDownWin(b) THEN _setWinnerAndGameOver(st, move)
  ELSE IF DiagonalUpWin(b) THEN _setWinnerAndGameOver(st, move)
  ELSE st

_determineWinner(st, move, b) ==
  IF HorizontalWin(b) THEN _setWinnerAndGameOver(st, move)
  ELSE IF VerticalWin(b) THEN _setWinnerAndGameOver(st, move)
  ELSE IF DiagonalDownWin(b) THEN _setWinnerAndGameOver(st, move)
  ELSE IF DiagonalUpWin(b) THEN _setWinnerAndGameOver(st, move)
  ELSE IF TieReached(st, b) THEN [st EXCEPT !.status = "OVER", !.winner = undefined]
  ELSE st

\* variant: the move is appended before it is validated
applyMoveAppendFirst(st, b, move) ==
  LET check == _checkValidMove(st, b, move)
      appended == [st EXCEPT !.moves = Append(st.moves, move.move)]
      newBoard == _updateBoard(b, appended.moves)
  IN  IF check # OK
        THEN [state |-> appended, board |-> b, result |-> check]
        ELSE [state |-> _determineWinner(appended, move.move, newBoard),
              board |-> newBoard,
              result |-> OK]

\* variant: the move is put at the head of the log
applyMovePrepend(st, b, move) ==
  LET check == _checkValidMove(st, b, move)
      appended == [st EXCEPT !.moves = <<move.move>> \o st.moves]
      newBoard == _updateBoard(b, appended.moves)
  IN  IF check # OK
        THEN [state |-> st, board |-> b, result |-> check]
        ELSE [state |-> _determineWinner(appended, move.move, newBoard),
              board |-> newBoard,
              result |-> OK]

\* the game after applyMove(move): validation, append, board refresh, detector
applyMove(st, b, move) ==
  LET check == _checkValidMove(st, b, move)
      appended == [st EXCEPT !.moves = Append(st.moves, move.move)]
      newBoard == _updateBoard(b, appended.moves)
  IN  IF check # OK
        THEN [state |-> st, board |-> b, result |-> check]
        ELSE [state |-> _determineWinner(appended, move.move, newBoard),
              board |-> newBoard,
              result |-> OK]

(***************************************************************************)
(* Start, join, leave                                                      *)
(***************************************************************************)
\* variant: every player of this game must have been in the prior game
PriorPlayerPresentAll(ps, last) ==
  \A p \in ps : p = last[1].red \/ p = last[1].yellow

\* this._players.some(p => p.id is red or yellow of the prior game)
PriorPlayerPresent(ps, last) ==
  \E p \in ps : p = last[1].red \/ p = last[1].yellow

\* variant: without a prior game the first player is set to Yellow
FirstPlayerAtStartNoPriorYellow(st, ps, last) ==
  IF last # << >> /\ PriorPlayerPresent(ps, last)
    THEN (IF last[1].firstPlayer = "Red" THEN "Yellow" ELSE "Red")
  ELSE IF last = << >> THEN "Yellow"
  ELSE st.firstPlayer

FirstPlayerAtStart(st, ps, last) ==
  IF last # << >> /\ PriorPlayerPresent(ps, last)
    THEN (IF last[1].firstPlayer = "Red" THEN "Yellow" ELSE "Red")
  ELSE IF last = << >> THEN "Red"
  ELSE st.firstPlayer

\* variant: the seat of the caller is looked at before the status
startGameSeatCheckFirst(st, ps, last, player) ==
  IF st.red # player /\ st.yellow # player
    THEN [state |-> st, result |-> PLAYER_NOT_IN_GAME_MESSAGE]
  ELSE IF st.status # "WAITING_TO_START"
    THEN [state |-> st, result |-> GAME_NOT_STARTABLE_MESSAGE]
  ELSE
    LET s1 == [st EXCEPT !.firstPlayer = FirstPlayerAtStart(st, ps, last)]
        s2 == IF s1.red = player THEN [s1 EXCEPT !.redReady = TRUE]
              ELSE IF s1.yellow = player THEN [s1 EXCEPT !.yellowReady = TRUE]
              ELSE s1
        s3 == IF s2.yellowReady /\ s2.redReady
                THEN [s2 EXCEPT !.status = "IN_PROGRESS"] ELSE s2
    IN  [state |-> s3, result |-> OK]

\* variant: the game starts as soon as one of the players is ready
startGameEitherReady(st, ps, last, player) ==
  IF st.status # "WAITING_TO_START"
    THEN [state |-> st, result |-> GAME_NOT_STARTABLE_MESSAGE]
  ELSE IF st.red # player /\ st.yellow # player
    THEN [state |-> st, result |-> PLAYER_NOT_IN_GAME_MESSAGE]
  ELSE
    LET s1 == [st EXCEPT !.firstPlayer = FirstPlayerAtStart(st, ps, last)]
        s2 == IF s1.red = player THEN [s1 EXCEPT !.redReady = TRUE]
              ELSE IF s1.yellow = player THEN [s1 EXCEPT !.yellowReady = TRUE]
              ELSE s1
        s3 == IF s2.yellowReady \/ s2.redReady
                THEN [s2 EXCEPT !.status = "IN_PROGRESS"] ELSE s2
    IN  [state |-> s3, result |-> OK]

\* variant: the ready flag of the caller is toggled
startGameTogglesReady(st, ps, last, player) ==
  IF st.status # "WAITING_TO_START"
    THEN [state |-> st, result |-> GAME_NOT_STARTABLE_MESSAGE]
  ELSE IF st.red # player /\ st.yellow # player
    THEN [state |-> st, result |-> PLAYER_NOT_IN_GAME_MESSAGE]
  ELSE
    LET s1 == [st EXCEPT !.firstPlayer = FirstPlayerAtStart(st, ps, last)]
        s2 == IF s1.red = player THEN [s1 EXCEPT !.redReady = ~st.redReady]
              ELSE IF s1.yellow = player
                THEN [s1 EXCEPT !.yellowReady = ~st.yellowReady]
              ELSE s1
        s3 == IF s2.yellowReady /\ s2.redReady
                THEN [s2 EXCEPT !.status = "IN_PROGRESS"] ELSE s2
    IN  [state |-> s3, result |-> OK]

startGame(st, ps, last, player) ==
  IF st.status # "WAITING_TO_START"
    THEN [state |-> st, result |-> GAME_NOT_STARTABLE_MESSAGE]
  ELSE IF st.red # player /\ st.yellow # player
    THEN [state |-> st, result |-> PLAYER_NOT_IN_GAME_MESSAGE]
  ELSE
    LET s1 == [st EXCEPT !.firstPlayer = FirstPlayerAtStart(st, ps, last)]
        s2 == IF s1.red = player THEN [s1 EXCEPT !.redReady = TRUE]
              ELSE IF s1.yellow = player THEN [s1 EXCEPT !.yellowReady = TRUE]
              ELSE s1
        s3 == IF s2.yellowReady /\ s2.redReady
                THEN [s2 EXCEPT !.status = "IN_PROGRESS"] ELSE s2
    IN  [state |-> s3, result |-> OK]

\* variant: without a prior game Yellow is given out first
SeatForYellowFirst(st, last, player) ==
  IF last # << >>
    THEN IF st.red = undefined /\ last[1].red = player THEN "Red"
         ELSE IF st.yellow = undefined /\ last[1].yellow = player THEN "Yellow"
         ELSE IF st.red # undefined /\ last[1].red = player THEN "Yellow"
         ELSE IF st.yellow # undefined /\ last[1].yellow = player THEN "Red"
         ELSE IF st.red = undefined THEN "Red"
         ELSE "Yellow"
    ELSE IF st.yellow = undefined THEN "Yellow" ELSE "Red"

\* variant: the seats of the prior game are not consulted
SeatForNoPreference(st, last, player) ==
  IF st.red = undefined THEN "Red" ELSE "Yellow"

\* variant: a player without a seat in the prior game gets Yellow first
SeatForNewcomerYellowFirst(st, last, player) ==
  IF last # << >>
    THEN IF st.red = undefined /\ last[1].red = player THEN "Red"
         ELSE IF st.yellow = undefined /\ last[1].yellow = player THEN "Yellow"
         ELSE IF st.red # undefined /\ last[1].red = player THEN "Yellow"
         ELSE IF st.yellow # undefined /\ last[1].yellow = player THEN "Red"
         ELSE IF st.yellow = undefined THEN "Yellow"
         ELSE "Red"
    ELSE IF st.red = undefined THEN "Red" ELSE "Yellow"

\* the seat a joining player is given
SeatFor(st, last, player) ==
  IF last # << >>
    THEN IF st.red = undefined /\ last[1].red = player THEN "Red"
         ELSE IF st.yellow = undefined /\ last[1].yellow = player THEN "Yellow"
         ELSE IF st.red # undefined /\ last[1].red = player THEN "Yellow"
         ELSE IF st.yellow # undefined /\ last[1].yellow = player THEN "Red"
         ELSE IF st.red = undefined THEN "Red"
         ELSE "Yellow"
    ELSE IF st.red = undefined THEN "Red" ELSE "Yellow"

\* variant: only the red seat is compared with the joining player
_joinChecksRedOnly(st, last, player) ==
  IF st.red = player
    THEN [state |-> st, result |-> PLAYER_ALREADY_IN_GAME_MESSAGE]
  ELSE IF st.red # undefined /\ st.yellow # undefined /\ st.red # st.yellow
    THEN [state |-> st, result |-> GAME_FULL_MESSAGE]
  ELSE
    LET s1 == IF SeatFor(st, last, player) = "Red"
                THEN [st EXCEPT !.red = player]
                ELSE [st EXCEPT !.yellow = player]
        s2 == IF s1.red # undefined /\ s1.yellow # undefined
                THEN [s1 EXCEPT !.status = "WAITING_TO_START"] ELSE s1
    IN  [state |-> s2, result |-> OK]

\* variant: the game counts as full only while it waits to start
_joinFullOnlyWaiting(st, last, player) ==
  IF st.red = player \/ st.yellow = player
    THEN [state |-> st, result |-> PLAYER_ALREADY_IN_GAME_MESSAGE]
  ELSE IF /\ st.red # undefined /\ st.yellow # undefined /\ st.red # st.yellow
          /\ st.status = "WAITING_TO_START"
    THEN [state |-> st, result |-> GAME_FULL_MESSAGE]
  ELSE
    LET s1 == IF SeatFor(st, last, player) = "Red"
                THEN [st EXCEPT !.red = player]
                ELSE [st EXCEPT !.yellow = player]
        s2 == IF s1.red # undefined /\ s1.yellow # undefined
                THEN [s1 EXCEPT !.status = "WAITING_TO_START"] ELSE s1
    IN  [state |-> s2, result |-> OK]

\* variant: the status is not advanced when the second seat is filled
_joinKeepsStatus(st, last, player) ==
  IF st.red = player \/ st.yellow = player
    THEN [state |-> st, result |-> PLAYER_ALREADY_IN_GAME_MESSAGE]
  ELSE IF st.red # undefined /\ st.yellow # undefined /\ st.red # st.yellow
    THEN [state |-> st, result |-> GAME_FULL_MESSAGE]
  ELSE
    LET s1 == IF SeatFor(st, last, player) = "Red"
                THEN [st EXCEPT !.red = player]
                ELSE [st EXCEPT !.yellow = player]
    IN  [state |-> s1, result |-> OK]

\* variant: a player who is already seated is not turned away
_joinNoSeatCheck(st, last, player) ==
  IF st.red # undefined /\ st.yellow # undefined /\ st.red # st.yellow
    THEN [state |-> st, result |-> GAME_FULL_MESSAGE]
  ELSE
    LET s1 == IF SeatFor(st, last, player) = "Red"
                THEN [st EXCEPT !.red = player]
                ELSE [st EXCEPT !.yellow = player]
        s2 == IF s1.red # undefined /\ s1.yellow # undefined
                THEN [s1 EXCEPT !.status = "WAITING_TO_START"] ELSE s1
    IN  [state |-> s2, result |-> OK]

_join(st, last, player) ==
  IF st.red = player \/ st.yellow = player
    THEN [state |-> st, result |-> PLAYER_ALREADY_IN_GAME_MESSAGE]
  ELSE IF st.red # undefined /\ st.yellow # undefined /\ st.red # st.yellow
    THEN [state |-> st, result |-> GAME_FULL_MESSAGE]
  ELSE
    LET s1 == IF SeatFor(st, last, player) = "Red"
                THEN [st EXCEPT !.red = player]
                ELSE [st EXCEPT !.yellow = player]
        s2 == IF s1.red # undefined /\ s1.yellow # undefined
                THEN [s1 EXCEPT !.status = "WAITING_TO_START"] ELSE s1
    IN  [state |-> s2, result |-> OK]

\* variant: the player who leaves is made the winner
LeaveInProgressLeaverWins(st, player) ==
  IF st.red = player /\ st.status = "IN_PROGRESS"
    THEN [st EXCEPT !.winner = st.red, !.status = "OVER"]
  ELSE IF st.yellow = player /\ st.status = "IN_PROGRESS"
    THEN [st EXCEPT !.winner = st.yellow, !.status = "OVER"]
  ELSE st

\* variant: a game that is over is treated like one in progress
LeaveInProgressOrOver(st, player) ==
  IF st.red = player /\ st.status \in {"IN_PROGRESS", "OVER"}
    THEN [st EXCEPT !.winner = st.yellow, !.status = "OVER"]
  ELSE IF st.yellow = player /\ st.status \in {"IN_PROGRESS", "OVER"}
    THEN [st EXCEPT !.winner = st.red, !.status = "OVER"]
  ELSE st

\* variant: leaving a game in progress frees the seat for another player
LeaveInProgressBackToWaiting(st, player) ==
  IF st.red = player /\ st.status = "IN_PROGRESS"
    THEN [st EXCEPT !.red = undefined, !.redReady = FALSE,
                    !.status = "WAITING_FOR_PLAYERS"]
  ELSE IF st.yellow = player /\ st.status = "IN_PROGRESS"
    THEN [st EXCEPT !.yellow = undefined, !.yellowReady = FALSE,
                    !.status = "WAITING_FOR_PLAYERS"]
  ELSE st

\* lines 181-187: a seated player leaves a game in progress
LeaveInProgress(st, player) ==
  IF st.red = player /\ st.status = "IN_PROGRESS"
    THEN [st EXCEPT !.winner = st.yellow, !.status = "OVER"]
  ELSE IF st.yellow = player /\ st.status = "IN_PROGRESS"
    THEN [st EXCEPT !.winner = st.red, !.status = "OVER"]
  ELSE st

\* variant: the ready flag of the vacated seat is kept
LeaveWaitingToStartKeepsReady(st, player) ==
  IF st.red = player
    THEN (IF st.status = "WAITING_TO_START"
            THEN [st EXCEPT !.red = undefined, !.status = "WAITING_FOR_PLAYERS"]
            ELSE st)
  ELSE IF st.yellow = player
    THEN (IF st.status = "WAITING_TO_START"
            THEN [st EXCEPT !.yellow = undefined, !.status = "WAITING_FOR_PLAYERS"]
            ELSE st)
  ELSE st

\* variant: both ready flags are cleared when a player leaves
LeaveWaitingToStartClearsBothReady(st, player) ==
  IF st.red = player
    THEN (IF st.status = "WAITING_TO_START"
            THEN [st EXCEPT !.red = undefined, !.redReady = FALSE,
                            !.yellowReady = FALSE,
                            !.status = "WAITING_FOR_PLAYERS"]
            ELSE st)
  ELSE IF st.yellow = player
    THEN (IF st.status = "WAITING_TO_START"
            THEN [st EXCEPT !.yellow = undefined, !.yellowReady = FALSE,
                            !.redReady = FALSE,
                            !.status = "WAITING_FOR_PLAYERS"]
            ELSE st)
  ELSE st

\* lines 202-214: leaving while waiting to start
LeaveWaitingToStart(st, player) ==
  IF st.red = player
    THEN (IF st.status = "WAITING_TO_START"
            THEN [st EXCEPT !.red = undefined, !.redReady = FALSE,
                            !.status = "WAITING_FOR_PLAYERS"]
            ELSE st)
  ELSE IF st.yellow = player
    THEN (IF st.status = "WAITING_TO_START"
            THEN [st EXCEPT !.yellow = undefined, !.yellowReady = FALSE,
                            !.status = "WAITING_FOR_PLAYERS"]
            ELSE st)
  ELSE st

\* variant: the first player is set back to Red whenever a player leaves
LeaveFirstPlayerBranchResets(st, player) ==
  [st EXCEPT !.firstPlayer = "Red"]

\* lines 220-228: the first-player branch
LeaveFirstPlayerBranch(st, player) ==
  IF /\ st.red = player /\ st.status = "WAITING_TO_START"
     /\ st.red # undefined /\ st.yellow # undefined
     /\ st.yellow = player
    THEN [st EXCEPT !.firstPlayer = "Red"] ELSE st

\* variant: nothing is done while waiting for players
LeaveWaitingForPlayersUnchanged(st, player) == st

\* variant: the seat is cleared and its ready flag is kept
LeaveWaitingForPlayersKeepsReady(st, player) ==
  IF st.red = player
    THEN (IF st.status = "WAITING_FOR_PLAYERS"
            THEN [st EXCEPT !.red = undefined] ELSE st)
  ELSE IF st.yellow = player
    THEN (IF st.status = "WAITING_FOR_PLAYERS"
            THEN [st EXCEPT !.yellow = undefined] ELSE st)
  ELSE st

\* lines 233-245: leaving while waiting for players
LeaveWaitingForPlayers(st, player) ==
  IF st.red = player
    THEN (IF st.status = "WAITING_FOR_PLAYERS"
            THEN [st EXCEPT !.red = undefined, !.redReady = FALSE,
                            !.status = "WAITING_FOR_PLAYERS"]
            ELSE st)
  ELSE IF st.yellow = player
    THEN (IF st.status = "WAITING_FOR_PLAYERS"
            THEN [st EXCEPT !.yellow = undefined, !.yellowReady = FALSE,
                            !.status = "WAITING_FOR_PLAYERS"]
            ELSE st)
  ELSE st

\* lines 257-260: new ConnectFourGame() without a prior game
_createNewGame == [state |-> InitialState, lastGame |-> << >>]

\* variant: the seat of the player is not looked at first
_leaveUnchecked(st, player) ==
  LET s1 == LeaveInProgress(st, player)
      s2 == LeaveWaitingToStart(s1, player)
      s3 == LeaveFirstPlayerBranch(s2, player)
      s4 == LeaveWaitingForPlayers(s3, player)
  IN  IF (s1.red = player \/ s1.yellow = player) /\ s1.status = "OVER"
        THEN [state |-> s1, result |-> OK, created |-> << >>]
        ELSE [state |-> s4, result |-> OK,
              created |-> IF s4.status = "OVER" THEN <<_createNewGame>> ELSE << >>]

\* created: the games constructed by the call (the caller drops them)
_leave(st, player) ==
  IF st.red # player /\ st.yellow # player
    THEN [state |-> st, result |-> PLAYER_NOT_IN_GAME_MESSAGE, created |-> << >>]
  ELSE
    LET s1 == LeaveInProgress(st, player)
        s2 == LeaveWaitingToStart(s1, player)
        s3 == LeaveFirstPlayerBranch(s2, player)
        s4 == LeaveWaitingForPlayers(s3, player)
    IN  \* lines 192-196: return as soon as the game is over
        IF (s1.red = player \/ s1.yellow = player) /\ s1.status = "OVER"
          THEN [state |-> s1, result |-> OK, created |-> << >>]
          \* lines 247-249
          ELSE [state |-> s4, result |-> OK,
                created |-> IF s4.status = "OVER" THEN <<_createNewGame>> ELSE << >>]

(***************************************************************************)
(* The players' requests                                                   *)
(***************************************************************************)
\* Lines of play: the column of each successive move.  Line 1 is the row-5
\* win of Red in columns 0..3, line 2 a column win, lines 3 and 4 the two
\* diagonal wins, line 5 fills the board without a run (the full-board
\* pattern of the tie test), line 6 fills the board and completes a run
\* with the 42nd disc, line 7 is line 1 cut short by a disc that Yellow
\* submits with gamePiece Red, line 8 is an opening of three moves.
Lines ==
  << <<0, 6, 1, 6, 2, 6, 3>>,
     <<0, 1, 0, 1, 0, 1, 0>>,
     <<2, 2, 0, 1, 1, 3, 0, 1, 0, 0>>,
     <<1, 3, 3, 1, 3, 3, 2, 0, 2, 2>>,
     <<0, 1, 2, 3, 4, 5, 6, 0, 1, 2, 3, 4, 5, 0, 1, 6, 3, 2, 5, 4, 0,
       6, 2, 1, 4, 3, 0, 5, 6, 1, 2, 3, 4, 5, 6, 0, 1, 2, 3, 4, 5, 6>>,
     <<4, 1, 6, 2, 1, 0, 1, 4, 4, 2, 4, 1, 3, 6, 3, 3, 1, 0, 4, 6, 6,
       1, 2, 3, 2, 3, 2, 2, 6, 5, 5, 0, 5, 4, 6, 5, 5, 5, 0, 0, 0, 3>>,
     <<0, 6, 1, 6, 2, 3>>,
     <<3, 3, 4>> >>

\* the moves of a line that carry the game piece of the other seat
Forged == [l \in 1 .. Len(Lines) |-> IF l = 7 THEN {6} ELSE {}]

\* the plan after the lines: any column and any game piece, for MaxFreeMoves moves
FreePlay == Len(Lines) + 1

Plans == 1 .. FreePlay

\* the line played in a game that was constructed with a prior game
SuccessorPlan == Len(Lines)

\* the row a disc dropped into column col comes to rest in (-1: column full)
LandingRow(b, col) ==
  IF \A r \in Rows : b[r][col] # "_" THEN 0 - 1
  ELSE CHOOSE r \in Rows : b[r][col] = "_" /\ \A q \in Rows : q > r => b[q][col] # "_"

SeatColor(st, player) ==
  IF st.red = player THEN "Red"
  ELSE IF st.yellow = player THEN "Yellow"
  ELSE CurrentPlayer(st)

\* columns requested at this point of the plan
TriedCols(st, pl) ==
  IF pl = FreePlay THEN Cols
  ELSE IF Len(st.moves) < Len(Lines[pl]) THEN {Lines[pl][Len(st.moves) + 1]}
  ELSE {}

\* cells requested while the game is in progress: the landing cell of a tried
\* column, the cell above it, the cell below it, and a cell left and right of
\* the board; in any other status, and when the line is played out, the
\* bottom cell of the middle column
TriedCells(st, b, pl) ==
  IF st.status = "IN_PROGRESS" /\ TriedCols(st, pl) # {}
    THEN {<<c, LandingRow(b, c) + d>> : c \in TriedCols(st, pl), d \in {0 - 1, 0, 1}}
           \cup {<<0 - 1, 5>>, <<NumCols, 5>>}
    ELSE {<<3, 5>>}

\* game pieces a player puts into a request
TriedPieces(st, pl, player) ==
  IF pl = FreePlay THEN Colors
  ELSE IF (Len(st.moves) + 1) \in Forged[pl]
    THEN {_getOtherPlayerColor(SeatColor(st, player))}
  ELSE {SeatColor(st, player)}

NoMove == [gamePiece |-> "Red", col |-> 0 - 1, row |-> 0 - 1]

(***************************************************************************)
(* Operations                                                              *)
(***************************************************************************)
Init ==
  /\ state = InitialState
  /\ board = EmptyBoard
  /\ players = {}
  /\ lastGame = << >>
  /\ lastPlayers = {}
  /\ plan \in Plans
  /\ call = [op |-> "new", playerID |-> undefined, move |-> NoMove]
  /\ result = OK
  /\ created = << >>
  /\ gameID = 0
  /\ history = << >>
  /\ occupants = << >>

\* new ConnectFourGame(priorGame) with the current game as priorGame
NewGame ==
  /\ state.status \in {"WAITING_FOR_PLAYERS", "OVER"}
  /\ Len(state.moves) <= MaxPriorMoves
  /\ state' = InitialState
  /\ board' = EmptyBoard
  /\ players' = {}
  /\ lastGame' = <<state>>
  /\ lastPlayers' = players
  /\ plan' = SuccessorPlan
  /\ call' = [op |-> "new", playerID |-> undefined, move |-> NoMove]
  /\ result' = OK
  /\ created' = << >>
  /\ UNCHANGED areaVars

\* Game.join: _join, then the player is added to _players
Join(player) ==
  LET r == _join(state, lastGame, player)
  IN  /\ state' = r.state
      /\ result' = r.result
      /\ players' = IF r.result = OK THEN players \cup {player} ELSE players
      /\ call' = [op |-> "join", playerID |-> player, move |-> NoMove]
      /\ created' = << >>
      /\ UNCHANGED <<board, lastGame, lastPlayers, plan>>
      /\ UNCHANGED areaVars

\* variant: the first player is written into the prior game
StartGameWritesPrior(player) ==
  LET r == startGame(state, players, lastGame, player)
  IN  /\ state' = r.state
      /\ result' = r.result
      /\ call' = [op |-> "startGame", playerID |-> player, move |-> NoMove]
      /\ created' = << >>
      /\ lastGame' = IF lastGame # << >> /\ r.result = OK
                       THEN <<[lastGame[1] EXCEPT !.firstPlayer = r.state.firstPlayer]>>
                       ELSE lastGame
      /\ UNCHANGED <<board, players, lastPlayers, plan>>
      /\ UNCHANGED areaVars

StartGame(player) ==
  LET r == startGame(state, players, lastGame, player)
  IN  /\ state' = r.state
      /\ result' = r.result
      /\ call' = [op |-> "startGame", playerID |-> player, move |-> NoMove]
      /\ created' = << >>
      /\ UNCHANGED <<board, players, lastGame, lastPlayers, plan>>
      /\ UNCHANGED areaVars

\* Game.leave: _leave, then the player is removed from _players
Leave(player) ==
  LET r == _leave(state, player)
  IN  /\ state' = r.state
      /\ result' = r.result
      /\ players' = IF r.result = OK THEN players \ {player} ELSE players
      /\ call' = [op |-> "leave", playerID |-> player, move |-> NoMove]
      /\ created' = r.created
      /\ UNCHANGED <<board, lastGame, lastPlayers, plan>>
      /\ UNCHANGED areaVars

ApplyMove(player, cell, piece) ==
  LET move == [playerID |-> player,
               move |-> [gamePiece |-> piece, col |-> cell[1], row |-> cell[2]]]
      r == applyMove(state, board, move)
  IN  /\ plan = FreePlay => Len(state.moves) < MaxFreeMoves
      /\ state' = r.state
      /\ board' = r.board
      /\ result' = r.result
      /\ call' = [op |-> "applyMove", playerID |-> player, move |-> move.move]
      /\ created' = << >>
      /\ UNCHANGED <<players, lastGame, lastPlayers, plan>>
      /\ UNCHANGED areaVars

Next ==
  \/ NewGame
  \/ \E player \in Players : Join(player)
  \/ \E player \in Players : StartGame(player)
  \/ \E player \in Players : Leave(player)
  \/ \E player \in Players :
       \E cell \in TriedCells(state, board, plan) :
         \E piece \in TriedPieces(state, plan, player) :
           ApplyMove(player, cell, piece)

Spec == Init /\ [][Next]_vars

(***************************************************************************)
(* Vocabulary of the properties                                            *)
(***************************************************************************)
Accepted == call.op = "applyMove" /\ result = OK

SeatOf(st, color) == IF color = "Red" THEN st.red ELSE st.yellow

Letter(color) == IF color = "Red" THEN "R" ELSE "Y"

\* the colour to move: the first mover on an even log length, else the other
ActiveColor(st) ==
  IF Len(st.moves) % 2 = 0 THEN st.firstPlayer
  ELSE IF st.firstPlayer = "Red" THEN "Yellow" ELSE "Red"

Directions == {<<0, 1>>, <<1, 0>>, <<1, 1>>, <<0 - 1, 1>>}

At(b, row, col) == IF row \in Rows /\ col \in Cols THEN b[row][col] ELSE "off"

\* four discs of one colour in a line, starting at (row, col) in direction d
RunFrom(b, letter, row, col, d) ==
  \A k \in 0 .. 3 : At(b, row + k * d[1], col + k * d[2]) = letter

HasRun(b, letter) ==
  \E row \in Rows, col \in Cols, d \in Directions : RunFrom(b, letter, row, col, d)

FourInARow(b) == HasRun(b, "R") \/ HasRun(b, "Y")

Placeable(b, col, row) ==
  /\ col \in 0 .. 6
  /\ row \in 0 .. 5
  /\ b[row][col] = "_"
  /\ (row = 5 \/ b[row + 1][col] # "_")

(***************************************************************************)
(* Properties                                                              *)
(***************************************************************************)
\* C1: a rejected Join, StartGame, ApplyMove or Leave leaves status, seats,
\* ready flags, first mover, move log, winner and board as they were.
C1_RejectedCallChangesNothing ==
  [][result' # OK => (state' = state /\ board' = board)]_vars

\* a move onto a cell that is not placeable was rejected in a game with discs
C1_Witness ==
  /\ call.op = "applyMove"
  /\ result = BOARD_POSITION_NOT_VALID_MESSAGE
  /\ Len(state.moves) > 0

\* C2: after an accepted ApplyMove, a run of four equal discs (horizontal,
\* vertical or on either diagonal) means the status is OVER and the winner
\* is the player in the seat of the run's colour.
C2_RunEndsGameForItsSeat ==
  Accepted =>
    \A color \in Colors :
      HasRun(board, Letter(color)) =>
        state.status = "OVER" /\ state.winner = SeatOf(state, color)

\* an accepted move completed a run from bottom left to top right
C2_Witness ==
  /\ Accepted
  /\ \E row \in Rows, col \in Cols : RunFrom(board, "Y", row, col, <<0 - 1, 1>>)
  /\ state.winner = state.yellow

\* C3: after an accepted ApplyMove the status is OVER exactly when the board
\* holds a four-in-a-row or the log has 42 moves; otherwise the status is
\* IN_PROGRESS and the winner is unset.
C3_OverIffRunOrFull ==
  Accepted =>
    /\ state.status = "OVER" <=> (FourInARow(board) \/ Len(state.moves) = 42)
    /\ ~(FourInARow(board) \/ Len(state.moves) = 42) =>
         state.status = "IN_PROGRESS" /\ state.winner = undefined

\* 41 moves were accepted and the game goes on
C3_Witness ==
  Accepted /\ Len(state.moves) = 41 /\ state.status = "IN_PROGRESS"

\* C4: when the 42nd move is accepted and no four-in-a-row is on the board,
\* the status is OVER and the winner unset; the log never exceeds 42 moves.
C4_FullBoardIsTie ==
  /\ Len(state.moves) <= 42
  /\ (Accepted /\ Len(state.moves) = 42 /\ ~FourInARow(board)) =>
       state.status = "OVER" /\ state.winner = undefined

\* the board was filled without a run
C4_Witness ==
  /\ Accepted /\ Len(state.moves) = 42 /\ ~FourInARow(board)
  /\ \A row \in Rows, col \in Cols : board[row][col] # "_"

\* C5: a 42nd move that completes a four-in-a-row ends the round as a win
\* of the seat of the run's colour, never as a tie.
C5_WinBeforeTie ==
  (Accepted /\ Len(state.moves) = 42 /\ FourInARow(board)) =>
    /\ state.status = "OVER"
    /\ state.winner # undefined
    /\ \E color \in Colors :
         HasRun(board, Letter(color)) /\ state.winner = SeatOf(state, color)

\* the 42nd move completed a run
C5_Witness ==
  Accepted /\ Len(state.moves) = 42 /\ FourInARow(board) /\ state.status = "OVER"

\* C6: in a round in progress a move is accepted only from the player in
\* the seat of the active colour (the first mover on an even log length, the
\* other colour on an odd one), and a seated player who is not in that seat
\* is rejected with MoveNotYourTurn.
C6_TurnOrder ==
  [][call'.op = "applyMove" =>
       /\ result' = OK =>
            /\ state.status = "IN_PROGRESS"
            /\ call'.playerID = SeatOf(state, ActiveColor(state))
       /\ ( /\ state.status = "IN_PROGRESS"
            /\ call'.playerID \in {state.red, state.yellow}
            /\ call'.playerID # SeatOf(state, ActiveColor(state)) ) =>
            result' = MOVE_NOT_YOUR_TURN_MESSAGE]_vars

\* Red was turned away on Yellow's turn in a game that Yellow moves first in
C6_Witness ==
  /\ call.op = "applyMove"
  /\ result = MOVE_NOT_YOUR_TURN_MESSAGE
  /\ state.firstPlayer = "Yellow"
  /\ Len(state.moves) = 2
  /\ call.playerID = state.red

\* C7: an in-turn move of a seated player in a round in progress is rejected
\* with BoardPositionNotValid exactly when its cell is not placeable (column
\* in 0..6, row in 0..5, cell empty, row 5 or the cell below occupied), and
\* is accepted otherwise.
C7_RejectedIffNotPlaceable ==
  [][( /\ call'.op = "applyMove"
       /\ state.status = "IN_PROGRESS"
       /\ call'.playerID = SeatOf(state, ActiveColor(state)) ) =>
       /\ result' = BOARD_POSITION_NOT_VALID_MESSAGE
            <=> ~Placeable(board, call'.move.col, call'.move.row)
       /\ result' = OK <=> Placeable(board, call'.move.col, call'.move.row)]_vars

\* a disc aimed at an occupied cell was rejected
C7_Witness ==
  /\ call.op = "applyMove"
  /\ result = BOARD_POSITION_NOT_VALID_MESSAGE
  /\ call.move.row \in Rows /\ call.move.col \in Cols
  /\ board[call.move.row][call.move.col] # "_"

\* C8: no occupied cell has an empty cell directly beneath it.
C8_Gravity ==
  \A row \in 0 .. 4, col \in Cols :
    board[row][col] # "_" => board[row + 1][col] # "_"

\* a column is filled to the top while another is still empty
C8_Witness ==
  \E c1 \in Cols, c2 \in Cols : board[0][c1] # "_" /\ board[5][c2] = "_"

\* C9: the board is the replay of the move log onto an empty board: the cell
\* of each logged move holds that move's colour, every other cell is empty.
C9_BoardIsReplayOfLog ==
  /\ \A i \in 1 .. Len(state.moves) :
       board[state.moves[i].row][state.moves[i].col] = Letter(state.moves[i].gamePiece)
  /\ \A row \in Rows, col \in Cols :
       (\A i \in 1 .. Len(state.moves) :
          ~(state.moves[i].row = row /\ state.moves[i].col = col))
         => board[row][col] = "_"

\* ten moves of both colours are logged
C9_Witness ==
  /\ Len(state.moves) = 10
  /\ \E row \in Rows, col \in Cols : board[row][col] = "Y"
  /\ \E row \in Rows, col \in Cols : board[row][col] = "R"

\* C10: an accepted ApplyMove appends the submitted move to the log and keeps
\* the earlier entries; no other call on the game changes the log.
C10_LogAppendOnly ==
  [][call'.op # "new" =>
       IF call'.op = "applyMove" /\ result' = OK
         THEN state'.moves = Append(state.moves, call'.move)
         ELSE state'.moves = state.moves]_vars

\* the third accepted move is the last entry of the log
C10_Witness ==
  /\ Accepted
  /\ Len(state.moves) = 3
  /\ state.moves[3] = call.move
  /\ state.moves[1] # state.moves[3]

\* the player holds a seat of the game
Seated(st, player) == st.red = player \/ st.yellow = player

\* C11: every accepted move places a disc of the colour of the seat of the
\* player who submitted it, whatever gamePiece the request carries.
C11_DiscHasSeatColor ==
  Accepted =>
    board[call.move.row][call.move.col]
      = Letter(IF state.red = call.playerID THEN "Red" ELSE "Yellow")

\* C12: Leave of a seated player in a game in progress sets the status to
\* OVER and makes the other seat's player the winner.
C12_LeaveInProgressForfeits ==
  [][( /\ call'.op = "leave"
       /\ state.status = "IN_PROGRESS"
       /\ Seated(state, call'.playerID) ) =>
       /\ result' = OK
       /\ state'.status = "OVER"
       /\ state'.winner = IF call'.playerID = state.red THEN state.yellow
                                                        ELSE state.red]_vars

\* Red left after two moves and Yellow is the winner
C12_Witness ==
  /\ call.op = "leave" /\ result = OK
  /\ state.status = "OVER"
  /\ Len(state.moves) = 2
  /\ call.playerID = state.red
  /\ state.winner = state.yellow

\* C13: Leave of a seated player in WAITING_TO_START clears that player's
\* seat, sets the seat's ready flag to false and the status to
\* WAITING_FOR_PLAYERS.
C13_LeaveWaitingToStart ==
  [][( /\ call'.op = "leave"
       /\ state.status = "WAITING_TO_START"
       /\ Seated(state, call'.playerID) ) =>
       /\ result' = OK
       /\ state'.status = "WAITING_FOR_PLAYERS"
       /\ IF call'.playerID = state.red
            THEN state'.red = undefined /\ ~state'.redReady
            ELSE state'.yellow = undefined /\ ~state'.yellowReady]_vars

\* Red left a game in which Yellow had reported ready
C13_Witness ==
  /\ call.op = "leave" /\ result = OK
  /\ state.status = "WAITING_FOR_PLAYERS"
  /\ state.red = undefined /\ ~state.redReady
  /\ state.yellow # undefined /\ state.yellowReady
  /\ call.playerID # state.yellow

C15_LeaveWhenOverChangesNothing ==
  [][( /\ call'.op = "leave"
       /\ state.status = "OVER"
       /\ Seated(state, call'.playerID) ) =>
       result' = OK /\ state' = state]_vars

\* the winner of a finished game left it
C15_Witness ==
  /\ call.op = "leave" /\ result = OK
  /\ state.status = "OVER"
  /\ state.winner = call.playerID
  /\ Len(state.moves) > 0

\* C16: Leave of a player who holds neither seat is rejected with
\* PlayerNotInGame, in every status.
C16_LeaveOfUnseatedRejected ==
  [][(call'.op = "leave" /\ ~Seated(state, call'.playerID)) =>
       result' = PLAYER_NOT_IN_GAME_MESSAGE]_vars

\* an outsider tried to leave a game in progress
C16_Witness ==
  /\ call.op = "leave"
  /\ result = PLAYER_NOT_IN_GAME_MESSAGE
  /\ state.status = "IN_PROGRESS"
  /\ Len(state.moves) > 0

\* C17: a Leave that takes the game from IN_PROGRESS to OVER constructs a
\* successor game with empty seats whose prior game is the game just ended.
C17_LeavePreparesSuccessor ==
  [][( /\ call'.op = "leave"
       /\ state.status = "IN_PROGRESS"
       /\ state'.status = "OVER" ) =>
       created' = <<[state |-> InitialState, lastGame |-> <<state'>>]>>]_vars

\* C18: Join of a player who already holds a seat is rejected with
\* PlayerAlreadyInGame, in every status.
C18_JoinOfSeatedRejected ==
  [][(call'.op = "join" /\ Seated(state, call'.playerID)) =>
       result' = PLAYER_ALREADY_IN_GAME_MESSAGE]_vars

\* the Yellow player tried to join again after the game was over
C18_Witness ==
  /\ call.op = "join"
  /\ result = PLAYER_ALREADY_IN_GAME_MESSAGE
  /\ state.status = "OVER"
  /\ call.playerID = state.yellow

\* C19: Join of an unseated player is rejected with GameFull whenever the
\* two seats hold two different players, in every status.
C19_JoinOfThirdRejected ==
  [][( /\ call'.op = "join"
       /\ ~Seated(state, call'.playerID)
       /\ state.red # undefined /\ state.yellow # undefined
       /\ state.red # state.yellow ) =>
       result' = GAME_FULL_MESSAGE]_vars

\* a player who had left a finished game was turned away as a third player
C19_Witness ==
  /\ call.op = "join"
  /\ result = GAME_FULL_MESSAGE
  /\ state.status = "OVER"
  /\ state.winner # undefined /\ state.winner # call.playerID
  /\ Cardinality(players) < 2

\* C20: in a game without a prior game a successful Join seats the player
\* Red when the red seat is free and Yellow otherwise.
C20_JoinSeatsRedFirst ==
  [][(call'.op = "join" /\ result' = OK /\ lastGame = << >>) =>
       IF state.red = undefined
         THEN state'.red = call'.playerID /\ state'.yellow = state.yellow
         ELSE state'.yellow = call'.playerID /\ state'.red = state.red]_vars

\* the second player of a game without a prior game was seated Yellow
C20_Witness ==
  /\ call.op = "join" /\ result = OK
  /\ lastGame = << >>
  /\ state.red # undefined
  /\ state.yellow = call.playerID
  /\ state.status = "WAITING_TO_START"

\* the seat a new player is given: Red when it is free, Yellow otherwise
SeatedAsNewPlayer(st, stNext, player) ==
  IF st.red = undefined
    THEN stNext.red = player /\ stNext.yellow = st.yellow
    ELSE stNext.yellow = player /\ stNext.red = st.red

\* the ready flag of the seat the player holds
ReadyOf(st, player) ==
  IF st.red = player THEN st.redReady
  ELSE IF st.yellow = player THEN st.yellowReady
  ELSE FALSE

C22_NewcomerSeatsRedFirst ==
  [][( /\ call'.op = "join" /\ result' = OK
       /\ lastGame # << >>
       /\ ~Seated(lastGame[1], call'.playerID) ) =>
       SeatedAsNewPlayer(state, state', call'.playerID)]_vars

\* a player unknown to the prior game was seated Yellow next to Red
C22_Witness ==
  /\ call.op = "join" /\ result = OK
  /\ lastGame # << >>
  /\ ~Seated(lastGame[1], call.playerID)
  /\ state.yellow = call.playerID
  /\ state.red # undefined

\* C23: a player who was no longer among the players of the prior game when
\* it ended (who left it, in whatever status) is seated like a new player
\* when joining this game: Red when Red is free and Yellow otherwise.
C23_LeaverSeatedAsNewPlayer ==
  [][( /\ call'.op = "join" /\ result' = OK
       /\ lastGame # << >>
       /\ call'.playerID \notin lastPlayers ) =>
       SeatedAsNewPlayer(state, state', call'.playerID)]_vars

\* C24: both seats are occupied exactly when the status is WAITING_TO_START,
\* IN_PROGRESS or OVER; so a Join that fills the second seat gives
\* WAITING_TO_START and a Join that fills one seat leaves
\* WAITING_FOR_PLAYERS.
C24_SeatsFullIffPastWaiting ==
  (state.red # undefined /\ state.yellow # undefined)
    <=> state.status \in {"WAITING_TO_START", "IN_PROGRESS", "OVER"}

\* a Join filled the seat that a Leave had vacated
C24_Witness ==
  /\ call.op = "join" /\ result = OK
  /\ state.status = "WAITING_TO_START"
  /\ state.red = call.playerID
  /\ state.yellow # undefined

\* C25: whenever both seats are occupied, the Red and the Yellow occupant are
\* different players.
C25_SeatsHoldDifferentPlayers ==
  (state.red # undefined /\ state.yellow # undefined) => state.red # state.yellow

\* the only seated player asked to join again and the second seat stayed free
C25_Witness ==
  /\ call.op = "join"
  /\ result = PLAYER_ALREADY_IN_GAME_MESSAGE
  /\ state.red = undefined
  /\ state.yellow = call.playerID

\* C26: StartGame is rejected with GameNotStartable whenever the status is
\* not WAITING_TO_START, seated caller or not, and with PlayerNotInGame when
\* the status is WAITING_TO_START and the caller holds no seat.
C26_StartGameRejections ==
  [][call'.op = "startGame" =>
       /\ state.status # "WAITING_TO_START" =>
            result' = GAME_NOT_STARTABLE_MESSAGE
       /\ (state.status = "WAITING_TO_START" /\ ~Seated(state, call'.playerID)) =>
            result' = PLAYER_NOT_IN_GAME_MESSAGE]_vars

\* an outsider asked to start a game in progress
C26_Witness ==
  /\ call.op = "startGame"
  /\ result = GAME_NOT_STARTABLE_MESSAGE
  /\ state.status = "IN_PROGRESS"
  /\ ~Seated(state, call.playerID)

\* C27: an accepted StartGame sets the ready flag of the caller's seat; the
\* status is IN_PROGRESS exactly when both flags are then true and is
\* WAITING_TO_START otherwise.
C27_StartGameSetsReady ==
  [][(call'.op = "startGame" /\ result' = OK) =>
       /\ ReadyOf(state', call'.playerID)
       /\ state'.status = IF state'.redReady /\ state'.yellowReady
                            THEN "IN_PROGRESS" ELSE "WAITING_TO_START"]_vars

\* the second player reported ready and the game began
C27_Witness ==
  /\ call.op = "startGame" /\ result = OK
  /\ state.status = "IN_PROGRESS"
  /\ state.yellow = call.playerID
  /\ Len(state.moves) = 0

C29_NoPriorRedFirst ==
  lastGame = << >> => state.firstPlayer = "Red"

\* a game without a prior game was started and played
C29_Witness ==
  /\ lastGame = << >>
  /\ state.status = "IN_PROGRESS"
  /\ state.redReady /\ state.yellowReady
  /\ Len(state.moves) > 0

\* C30: after an accepted StartGame in a game with a prior game in which at
\* least one of the seated players holds a seat, the first player is the
\* colour opposite to the first player of the prior game, whoever calls.
C30_FirstPlayerAlternates ==
  [][( /\ call'.op = "startGame" /\ result' = OK
       /\ lastGame # << >>
       /\ (Seated(lastGame[1], state.red) \/ Seated(lastGame[1], state.yellow)) ) =>
       state'.firstPlayer = _getOtherPlayerColor(lastGame[1].firstPlayer)]_vars

\* the first player went back to Red after a prior game that Yellow began
C30_Witness ==
  /\ call.op = "startGame" /\ result = OK
  /\ lastGame # << >>
  /\ lastGame[1].firstPlayer = "Yellow"
  /\ state.firstPlayer = "Red"
  /\ (Seated(lastGame[1], state.red) \/ Seated(lastGame[1], state.yellow))
  /\ ~(Seated(lastGame[1], state.red) /\ Seated(lastGame[1], state.yellow))

\* position of a status in the order of the life of a game
StatusRank(status) ==
  IF status = "WAITING_FOR_PLAYERS" THEN 0
  ELSE IF status = "WAITING_TO_START" THEN 1
  ELSE IF status = "IN_PROGRESS" THEN 2
  ELSE 3

\* the answer of the four checks of a move, taken in their order
FirstFailingCheck(st, b, player, move) ==
  IF st.status # "IN_PROGRESS" THEN GAME_NOT_IN_PROGRESS_MESSAGE
  ELSE IF ~Seated(st, player) THEN PLAYER_NOT_IN_GAME_MESSAGE
  ELSE IF SeatOf(st, ActiveColor(st)) # player THEN MOVE_NOT_YOUR_TURN_MESSAGE
  ELSE IF ~Placeable(b, move.col, move.row) THEN BOARD_POSITION_NOT_VALID_MESSAGE
  ELSE OK

\* C31: after an accepted StartGame in a game with a prior game in which
\* neither seated player holds a seat, the first player is Red, whatever
\* calls came before.
C31_NoCarriedPlayerRedFirst ==
  [][( /\ call'.op = "startGame" /\ result' = OK
       /\ lastGame # << >>
       /\ ~Seated(lastGame[1], state.red)
       /\ ~Seated(lastGame[1], state.yellow) ) =>
       state'.firstPlayer = "Red"]_vars

\* C32: within a game the status never goes back, except from
\* WAITING_TO_START to WAITING_FOR_PLAYERS on a Leave; IN_PROGRESS never
\* returns to a waiting status and OVER is never left.
C32_StatusMovesForward ==
  [][call'.op # "new" =>
       \/ StatusRank(state'.status) >= StatusRank(state.status)
       \/ /\ call'.op = "leave"
          /\ state.status = "WAITING_TO_START"
          /\ state'.status = "WAITING_FOR_PLAYERS"]_vars

\* a ready Red player stayed behind when Yellow left before the start
C32_Witness ==
  /\ call.op = "leave" /\ result = OK
  /\ state.status = "WAITING_FOR_PLAYERS"
  /\ state.yellow = undefined
  /\ state.red # undefined /\ state.redReady
  /\ lastGame = << >>

\* C33: if the winner is set, the status is OVER and the winner holds the
\* red or the yellow seat.
C33_WinnerOnlyWhenOver ==
  state.winner # undefined =>
    state.status = "OVER" /\ Seated(state, state.winner)

\* Yellow won by a run of four on the board
C33_Witness ==
  /\ state.winner # undefined
  /\ state.winner = state.yellow
  /\ Accepted
  /\ HasRun(board, "Y")

\* C34: no operation on a game changes any field of its prior game.
C34_PriorGameUntouched ==
  [][call'.op # "new" => lastGame' = lastGame]_vars

\* a game with a prior game was started and played with the other colour first
C34_Witness ==
  /\ lastGame # << >>
  /\ state.status = "IN_PROGRESS"
  /\ Len(state.moves) = 3
  /\ state.firstPlayer # lastGame[1].firstPlayer

\* C35: Leave never changes the first player; within a game only StartGame
\* changes it.
C35_OnlyStartGameSetsFirstPlayer ==
  [][call'.op \notin {"startGame", "new"} =>
       state'.firstPlayer = state.firstPlayer]_vars

\* a player left a game, not yet begun, in which Yellow is to move first
C35_Witness ==
  /\ call.op = "leave" /\ result = OK
  /\ state.status = "WAITING_FOR_PLAYERS"
  /\ state.firstPlayer = "Yellow"

\* C36: in IN_PROGRESS and OVER both ready flags are true, and a true ready
\* flag always belongs to an occupied seat.
C36_ReadyFlagsStay ==
  /\ state.status \in {"IN_PROGRESS", "OVER"} =>
       state.redReady /\ state.yellowReady
  /\ state.redReady => state.red # undefined
  /\ state.yellowReady => state.yellow # undefined

\* both players have left a finished game and the flags are still set
C36_Witness ==
  /\ state.status = "OVER"
  /\ players = {}
  /\ state.redReady /\ state.yellowReady
  /\ call.op = "leave" /\ result = OK

\* C37: ApplyMove answers with the first failing check in the order
\* GameNotInProgress, PlayerNotInGame, MoveNotYourTurn,
\* BoardPositionNotValid, and accepts the move when none fails.
C37_ChecksInOrder ==
  [][call'.op = "applyMove" =>
       result' = FirstFailingCheck(state, board, call'.playerID, call'.move)]_vars

\* a move out of turn to a cell that cannot take a disc
C37_Witness ==
  /\ call.op = "applyMove"
  /\ result = MOVE_NOT_YOUR_TURN_MESSAGE
  /\ ~Placeable(board, call.move.col, call.move.row)
  /\ Len(state.moves) > 0

\* C38: whenever an accepted move ends the game with a winner, the winner is
\* the player who submitted the move.
C38_WinnerIsMover ==
  (Accepted /\ state.winner # undefined) => state.winner = call.playerID

\* C39: a Leave in WAITING_TO_START changes the seat and ready flag of the
\* player who leaves and the status, nothing else; and a StartGame of a
\* player whose opponent is ready already begins the game.
C39_LeaveKeepsOtherSeat ==
  [][/\ ( /\ call'.op = "leave"
          /\ state.status = "WAITING_TO_START"
          /\ Seated(state, call'.playerID) ) =>
          state' = IF call'.playerID = state.red
                     THEN [state EXCEPT !.red = undefined, !.redReady = FALSE,
                                        !.status = "WAITING_FOR_PLAYERS"]
                     ELSE [state EXCEPT !.yellow = undefined,
                                        !.yellowReady = FALSE,
                                        !.status = "WAITING_FOR_PLAYERS"]
     /\ ( /\ call'.op = "startGame" /\ result' = OK
          /\ IF call'.playerID = state.red THEN state.yellowReady
                                           ELSE state.redReady ) =>
          state'.status = "IN_PROGRESS"]_vars

\* a replacement for a player who left began the game with one StartGame
C39_Witness ==
  /\ call.op = "startGame" /\ result = OK
  /\ call.playerID = "p3"
  /\ lastGame = << >>
  /\ state.status = "IN_PROGRESS"
  /\ Len(state.moves) = 0

(***************************************************************************)
(* The game area: commands of players, one game at a time, and the history *)
(***************************************************************************)
\* games an area creates in one run of the model
MaxGames == 2

\* who is in the area and under which user name: in the first list the
\* names differ and p2 is not in the area, in the second p1 and p2 have the
\* same user name
OccupantLists ==
  { [p \in {"p1", "p3"} |-> IF p = "p1" THEN "ann" ELSE "cy"],
    [p \in Players |-> IF p = "p3" THEN "cy" ELSE "ann"] }

\* lines of play followed in the first game of an area: a win of Red, a
\* full board and a win by a forged disc
AreaPlans == {1, 5, Len(Lines) - 1}

\* this._occupants.find(p => p.id === id)?.userName || id
NameOf(occ, id) == IF id \in DOMAIN occ THEN occ[id] ELSE id

\* the scores object: the entry of yellowName is written last
Scores(occ, st) ==
  LET redName == NameOf(occ, st.red)
      yellowName == NameOf(occ, st.yellow)
  IN  [n \in {redName, yellowName} |->
         IF n = yellowName THEN (IF st.winner = st.yellow THEN 1 ELSE 0)
         ELSE (IF st.winner = st.red THEN 1 ELSE 0)]

\* the history after _stateUpdated of the game with the given id
_stateUpdated(st, id, hist, occ) ==
  IF /\ st.status = "OVER"
     /\ id # 0
     /\ ~(\E i \in 1 .. Len(hist) : hist[i].gameID = id)
     /\ st.red # undefined /\ st.yellow # undefined
    THEN Append(hist, [gameID |-> id, scores |-> Scores(occ, st)])
    ELSE hist

AreaInit ==
  /\ state = InitialState
  /\ board = EmptyBoard
  /\ players = {}
  /\ lastGame = << >>
  /\ lastPlayers = {}
  /\ plan \in AreaPlans
  /\ call = [op |-> "new", playerID |-> undefined, move |-> NoMove]
  /\ result = OK
  /\ created = << >>
  /\ gameID = 0
  /\ history = << >>
  /\ occupants \in OccupantLists

\* JoinGame while the area holds no game or a game that is over
HandleJoinNewGame(player) ==
  LET r == _join(InitialState, << >>, player)
  IN  /\ gameID = 0 \/ state.status = "OVER"
      /\ gameID < MaxGames
      /\ gameID' = gameID + 1
      /\ state' = r.state
      /\ board' = EmptyBoard
      /\ players' = {player}
      /\ plan' = IF gameID = 0 THEN plan ELSE SuccessorPlan
      /\ result' = r.result
      /\ call' = [op |-> "join", playerID |-> player, move |-> NoMove]
      /\ created' = << >>
      /\ UNCHANGED <<lastGame, lastPlayers, history, occupants>>

\* JoinGame while the area holds a game that is not over
HandleJoinGame(player) ==
  LET r1 == _join(state, lastGame, player)
      r == IF state.status = "IN_PROGRESS" /\ r1.result = OK
             THEN _join(r1.state, lastGame, player) ELSE r1
  IN  /\ gameID # 0 /\ state.status # "OVER"
      /\ state' = r.state
      /\ result' = r.result
      /\ players' = IF r1.result = OK THEN players \cup {player} ELSE players
      /\ call' = [op |-> "join", playerID |-> player, move |-> NoMove]
      /\ created' = << >>
      /\ UNCHANGED <<board, lastGame, lastPlayers, plan, areaVars>>

\* the answer to a command that names a game, before the game is asked
CommandCheck(id) ==
  IF gameID = 0 THEN GAME_NOT_IN_PROGRESS_MESSAGE
  ELSE IF gameID # id THEN GAME_ID_MISSMATCH_MESSAGE
  ELSE OK

HandleStartGame(player, id) ==
  LET r == startGame(state, players, lastGame, player)
  IN  /\ state' = IF CommandCheck(id) = OK THEN r.state ELSE state
      /\ result' = IF CommandCheck(id) = OK THEN r.result ELSE CommandCheck(id)
      /\ call' = [op |-> "startGame", playerID |-> player, move |-> NoMove]
      /\ created' = << >>
      /\ UNCHANGED <<board, players, lastGame, lastPlayers, plan, areaVars>>

HandleLeaveGame(player, id) ==
  LET r == _leave(state, player)
      done == CommandCheck(id) = OK /\ r.result = OK
  IN  /\ state' = IF CommandCheck(id) = OK THEN r.state ELSE state
      /\ result' = IF CommandCheck(id) = OK THEN r.result ELSE CommandCheck(id)
      /\ players' = IF done THEN players \ {player} ELSE players
      /\ history' = IF done THEN _stateUpdated(r.state, gameID, history, occupants)
                            ELSE history
      /\ call' = [op |-> "leave", playerID |-> player, move |-> NoMove]
      /\ created' = IF CommandCheck(id) = OK THEN r.created ELSE << >>
      /\ UNCHANGED <<board, lastGame, lastPlayers, plan, gameID, occupants>>

HandleGameMove(player, id, cell, piece) ==
  LET move == [playerID |-> player,
               move |-> [gamePiece |-> piece, col |-> cell[1], row |-> cell[2]]]
      r == applyMove(state, board, move)
      done == CommandCheck(id) = OK /\ r.result = OK
  IN  /\ plan = FreePlay => Len(state.moves) < MaxFreeMoves
      /\ state' = IF CommandCheck(id) = OK THEN r.state ELSE state
      /\ board' = IF CommandCheck(id) = OK THEN r.board ELSE board
      /\ result' = IF CommandCheck(id) = OK THEN r.result ELSE CommandCheck(id)
      /\ history' = IF done THEN _stateUpdated(r.state, gameID, history, occupants)
                            ELSE history
      /\ call' = [op |-> "applyMove", playerID |-> player, move |-> move.move]
      /\ created' = << >>
      /\ UNCHANGED <<players, lastGame, lastPlayers, plan, gameID, occupants>>

AreaNext ==
  \/ \E player \in Players : HandleJoinNewGame(player)
  \/ \E player \in Players : HandleJoinGame(player)
  \/ \E player \in Players : \E id \in 1 .. MaxGames : HandleStartGame(player, id)
  \/ \E player \in Players : \E id \in 1 .. MaxGames : HandleLeaveGame(player, id)
  \/ \E player \in Players : \E id \in 1 .. MaxGames :
       \E cell \in TriedCells(state, board, plan) :
         \E piece \in TriedPieces(state, plan, player) :
           HandleGameMove(player, id, cell, piece)

AreaSpec == AreaInit /\ [][AreaNext]_vars

\* C40: the history holds at most one record per game id; a record is added
\* only for the game of the area when it is OVER with both seats occupied;
\* and in the record the winner scores 1 and the other player 0, both 0 on a
\* tie.
C40_HistoryRecordsOutcome ==
  [][/\ \A i, j \in 1 .. Len(history') :
          history'[i].gameID = history'[j].gameID => i = j
     /\ history' # history =>
          /\ state'.status = "OVER"
          /\ state'.red # undefined /\ state'.yellow # undefined
          /\ Len(history') = Len(history) + 1
          /\ SubSeq(history', 1, Len(history)) = history
          /\ LET entry == history'[Len(history')]
             IN  /\ entry.gameID = gameID'
                 /\ entry.scores[NameOf(occupants, state'.red)]
                      = (IF state'.winner = state'.red THEN 1 ELSE 0)
                 /\ entry.scores[NameOf(occupants, state'.yellow)]
                      = (IF state'.winner = state'.yellow THEN 1 ELSE 0)]_vars

====
